---- MODULE Spec2Model ----
(***************************************************************************)
(* Model of src/app.py: the Streamlit page that searches videos, asks a    *)
(* Gemini model for a creative brief, keeps it in the session state and    *)
(* appends it to a Google Sheet.                                           *)
(*                                                                         *)
(* Text is a sequence of lexemes.  The characters the code inspects one by *)
(* one (backtick, braces, quote, colon, comma, brackets, blank, newline)   *)
(* are lexemes of their own; every other lexeme is an opaque word that     *)
(* holds none of them ("json", "title_en", "#Veo", ...).  String           *)
(* concatenation is \o, the empty string is <<>>.                          *)
(***************************************************************************)
EXTENDS Integers, Sequences, FiniteSets, TLC

VARIABLES modelCache, listCalls, search_results, selected_video,
          session_state, aiSrc, rows, inv, ex

vars == <<modelCache, listCalls, search_results, selected_video,
          session_state, aiSrc, rows, inv, ex>>

-----------------------------------------------------------------------------
(* Bounds of the model *)

\* the sheet is modelled up to this many rows
MaxRows == 2
\* the count of genai.list_models calls saturates here
MaxListCalls == 3
\* longest prefix and longest suffix wrapped around an object text
MaxPrefixLen == 4
MaxSuffixLen == 3

-----------------------------------------------------------------------------
(* Strings *)

Q == "\""
Whitespace == {" ", "\n"}

\* str.replace(pat, ""): drop the non-overlapping occurrences, left to right
RECURSIVE str_remove(_, _)
str_remove(text, pat) ==
    IF Len(text) < Len(pat) THEN text
    ELSE IF SubSeq(text, 1, Len(pat)) = pat
         THEN str_remove(SubSeq(text, Len(pat) + 1, Len(text)), pat)
         ELSE <<Head(text)>> \o str_remove(Tail(text), pat)

\* str.find(ch): 0-based index of the first ch, -1 when there is none
str_find(text, ch) ==
    IF \E i \in 1..Len(text) : text[i] = ch
    THEN (CHOOSE i \in 1..Len(text) :
            text[i] = ch /\ \A j \in 1..(i - 1) : text[j] # ch) - 1
    ELSE -1

\* str.rfind(ch): 0-based index of the last ch, -1 when there is none
str_rfind(text, ch) ==
    IF \E i \in 1..Len(text) : text[i] = ch
    THEN (CHOOSE i \in 1..Len(text) :
            text[i] = ch /\ \A j \in (i + 1)..Len(text) : text[j] # ch) - 1
    ELSE -1

\* text[start:end+1] for 0-based start, end >= 0
str_slice(text, start, end) == SubSeq(text, start + 1, end + 1)

\* str.strip()
RECURSIVE str_lstrip(_)
str_lstrip(text) ==
    IF text # <<>> /\ Head(text) \in Whitespace THEN str_lstrip(Tail(text)) ELSE text

RECURSIVE str_rstrip(_)
str_rstrip(text) ==
    IF text # <<>> /\ text[Len(text)] \in Whitespace
    THEN str_rstrip(SubSeq(text, 1, Len(text) - 1)) ELSE text

str_strip(text) == str_rstrip(str_lstrip(text))

\* the backtick character (a string of the module cannot hold one)
BT == "BACKTICK"
\* the fence markers of text.replace("```json", "").replace("```", "")
FenceJson == <<BT, BT, BT, "json">>
Fence == <<BT, BT, BT>>

\* a bug clean_json_string could have: cutting at the first '}' instead of the last
clean_json_string_first_close(text) ==
    LET t == str_remove(str_remove(text, FenceJson), Fence)
        start == str_find(t, "{")
        end == str_find(t, "}")
    IN  str_strip(IF start # -1 /\ end # -1 THEN str_slice(t, start, end) ELSE t)

clean_json_string(text) ==
    LET t == str_remove(str_remove(text, FenceJson), Fence)
        start == str_find(t, "{")
        end == str_rfind(t, "}")
    IN  str_strip(IF start # -1 /\ end # -1 THEN str_slice(t, start, end) ELSE t)

-----------------------------------------------------------------------------
(* json.loads, for the JSON texts of this model: objects whose values are  *)
(* strings, strings, and the empty array.  Anything else is a decode       *)
(* error.  The result is [kind, val]: kind "dict" with val the dictionary  *)
(* (a function from keys to values), kind "other" for a JSON value that is *)
(* no object, kind "error" for a JSONDecodeError.                          *)

EmptyDict == [k \in {} |-> <<>>]
JsonError == [kind |-> "error", val |-> EmptyDict]
JsonOther == [kind |-> "other", val |-> EmptyDict]
JsonDict(d) == [kind |-> "dict", val |-> d]

DictPut(d, k, v) == [x \in (DOMAIN d) \cup {k} |-> IF x = k THEN v ELSE d[x]]

\* index of the first lexeme at or after i that is not whitespace
RECURSIVE SkipWs(_, _)
SkipWs(t, i) == IF i <= Len(t) /\ t[i] \in Whitespace THEN SkipWs(t, i + 1) ELSE i

At(t, i) == IF i >= 1 /\ i <= Len(t) THEN t[i] ELSE "<eof>"

\* a string starting with the quote at i: [ok, val, next]
ScanString(t, i) ==
    IF At(t, i) # Q \/ ~ \E j \in (i + 1)..Len(t) : t[j] = Q
    THEN [ok |-> FALSE, val |-> <<>>, next |-> i]
    ELSE LET j == CHOOSE j \in (i + 1)..Len(t) :
                    t[j] = Q /\ \A k \in (i + 1)..(j - 1) : t[k] # Q
             s == SubSeq(t, i + 1, j - 1)
         IN  \* a raw control character inside a string is a decode error
             [ok |-> ~ \E k \in 1..Len(s) : s[k] = "\n", val |-> s, next |-> j + 1]

\* the members of an object from i on (i is at a key), d the dictionary so far:
\* [ok, val, next], next being the index after the closing brace
RECURSIVE ScanMembers(_, _, _)
ScanMembers(t, i, d) ==
    LET key == ScanString(t, i)
        colon == SkipWs(t, key.next)
        value == ScanString(t, SkipWs(t, colon + 1))
        after == SkipWs(t, value.next)
        bad == [ok |-> FALSE, val |-> EmptyDict, next |-> i]
    IN  IF ~ key.ok \/ At(t, colon) # ":" THEN bad
        ELSE IF ~ value.ok THEN bad
        ELSE IF At(t, after) = "}"
             THEN [ok |-> TRUE, val |-> DictPut(d, key.val, value.val), next |-> after + 1]
        ELSE IF At(t, after) = ","
             THEN ScanMembers(t, SkipWs(t, after + 1), DictPut(d, key.val, value.val))
        ELSE bad

json_loads(t) ==
    LET i == SkipWs(t, 1)
        AtEnd(n) == SkipWs(t, n) > Len(t)
    IN  IF At(t, i) = "{"
        THEN LET first == SkipWs(t, i + 1)
             IN  IF At(t, first) = "}"
                 THEN IF AtEnd(first + 1) THEN JsonDict(EmptyDict) ELSE JsonError
                 ELSE LET m == ScanMembers(t, first, EmptyDict)
                      IN  IF m.ok /\ AtEnd(m.next) THEN JsonDict(m.val) ELSE JsonError
        ELSE IF At(t, i) = Q
        THEN LET s == ScanString(t, i)
             IN  IF s.ok /\ AtEnd(s.next) THEN JsonOther ELSE JsonError
        ELSE IF At(t, i) = "["
        THEN LET close == SkipWs(t, i + 1)
             IN  IF At(t, close) = "]" /\ AtEnd(close + 1) THEN JsonOther ELSE JsonError
        ELSE JsonError

-----------------------------------------------------------------------------
(* The texts a Gemini model answers with *)

Str(w) == <<Q>> \o w \o <<Q>>
Pair(k, w) == Str(<<k>>) \o <<":">> \o Str(w)

RECURSIVE JoinComma(_)
JoinComma(ps) ==
    IF ps = <<>> THEN <<>>
    ELSE IF Len(ps) = 1 THEN ps[1]
    ELSE ps[1] \o <<",">> \o JoinComma(Tail(ps))

Obj(ps) == <<"{">> \o JoinComma(ps) \o <<"}">>

\* the answer asked for at lines 181-190, fenced, with a vendor tag and no #AI
TextFull ==
    Fence \o <<"json", "\n">>
    \o Obj(<<Pair("title_en", <<"T1">>), Pair("title_zh", <<"Z1">>),
             Pair("veo_prompt", <<"V1">>), Pair("kling_prompt", <<"K1">>),
             Pair("script_en", <<"S1">>), Pair("script_zh", <<"C1">>),
             Pair("tags", <<"#Slime", " ", "#VEO">>), Pair("comment", <<"Q1">>)>>)
    \o <<"\n">> \o Fence

\* prose around an object that lacks title_en
TextNoTitle ==
    <<"Here", " ">>
    \o Obj(<<Pair("title_zh", <<"Z2">>),
             Pair("veo_prompt", <<"V2">>), Pair("kling_prompt", <<"K2">>),
             Pair("script_en", <<"S2">>), Pair("script_zh", <<"C2">>),
             Pair("tags", <<"#AI">>), Pair("comment", <<"Q2">>)>>)

\* a bare object that lacks only the comment; a script holds a closing brace
TextNoComment ==
    Obj(<<Pair("title_en", <<"T3">>), Pair("title_zh", <<"Z3">>),
          Pair("veo_prompt", <<"V3">>), Pair("kling_prompt", <<"K3">>),
          Pair("script_en", <<"S3", "}">>), Pair("script_zh", <<"C3">>),
          Pair("tags", <<"#Fun", " ", "#AI">>)>>)

\* no JSON at all
TextProse == <<"Sorry", " ", "no">>

\* an object cut off before its closing brace
TextTruncated == <<"{">> \o Pair("title_en", <<"T5">>) \o <<",">>

\* valid JSON that is no object
TextArray == Fence \o <<"json", "\n", "[", "]", "\n">> \o Fence

\* an object that happens to hold the key "error"
TextErrorKey == Obj(<<Pair("error", <<"E7">>), Pair("title_en", <<"T7">>)>>)

RawTexts ==
    <<TextFull, TextNoTitle, TextNoComment, TextProse, TextTruncated, TextArray,
      TextErrorKey>>

\* json.loads(clean_json_string(response.text)) of each text (line 194)
Extracted == [i \in 1..Len(RawTexts) |-> json_loads(clean_json_string(RawTexts[i]))]

-----------------------------------------------------------------------------
(* The Model Directory: get_valid_models behind st.cache_resource *)

GenerateContent == "generateContent"
EmbedContent == "embedContent"

Model(n, methods) == [name |-> n, supported_generation_methods |-> methods]

\* what genai.list_models() can yield: model names are numbers, so that
\* sorted(...) has an order to sort by
Listings ==
    { <<Model(2, {GenerateContent}), Model(4, {EmbedContent}),
        Model(1, {GenerateContent}), Model(3, {GenerateContent, EmbedContent})>>,
      <<Model(4, {EmbedContent})>> }

\* lines 35-39: the names of the listed models that support generateContent
RECURSIVE valid_models(_)
valid_models(listed) ==
    IF listed = <<>> THEN <<>>
    ELSE (IF GenerateContent \in Head(listed).supported_generation_methods
          THEN <<Head(listed).name>> ELSE <<>>) \o valid_models(Tail(listed))

\* sorted(names, reverse=True)
RECURSIVE InsertDesc(_, _)
InsertDesc(x, sorted) ==
    IF sorted = <<>> THEN <<x>>
    ELSE IF x >= Head(sorted) THEN <<x>> \o sorted
    ELSE <<Head(sorted)>> \o InsertDesc(x, Tail(sorted))

RECURSIVE sorted_reverse(_)
sorted_reverse(names) ==
    IF names = <<>> THEN <<>> ELSE InsertDesc(Head(names), sorted_reverse(Tail(names)))

\* lines 32-43 past the cache: list_models yields `yielded` items of `listing`
\* and then ends, normally or (raised) with an exception that line 40 swallows.
\* The cache keeps the list returned; raised only records how the listing ended.
ListModels(listing, yielded, raised) ==
    /\ modelCache' = [populated |-> TRUE,
                      value |-> sorted_reverse(valid_models(SubSeq(listing, 1, yielded))),
                      raised |-> raised]
    /\ listCalls' = IF listCalls < MaxListCalls THEN listCalls + 1 ELSE listCalls

QueryBackend ==
    \E listing \in Listings, raised \in BOOLEAN :
      \E yielded \in 0..Len(listing) :
        /\ ~raised => yielded = Len(listing)
        /\ ListModels(listing, yielded, raised)

\* a bug the memoisation could have: the decorator of line 31 missing
get_valid_models_uncached == QueryBackend

\* lines 31-43: st.cache_resource runs the body once per api_key and keeps the
\* returned list; the page has one api_key (line 28)
get_valid_models ==
    IF modelCache.populated
    THEN UNCHANGED <<modelCache, listCalls>>
    ELSE QueryBackend

\* lines 256, 287-295: the detail column is drawn, and the model list fetched,
\* when there are search results and a selected video
RenderDetail ==
    IF search_results' # <<>> /\ selected_video' # "none"
    THEN get_valid_models
    ELSE UNCHANGED <<modelCache, listCalls>>

-----------------------------------------------------------------------------
(* The session *)

Videos == {"v1", "v2"}
Url(v) == <<"https://www.youtube.com/shorts/", v>>

\* what search_or_fetch_videos can return ([] also stands for an API error,
\* lines 133-135)
SearchOutcomes == { <<>>, <<"v1">>, <<"v2", "v1">> }

\* the session keys set at lines 309-316, each with the ai_data key it is read from
AiKeys == {"ai_title_en", "ai_title_zh", "ai_veo", "ai_kling",
           "ai_script_en", "ai_script_zh", "ai_tags", "ai_comment"}

DataKey(k) ==
    CASE k = "ai_title_en" -> "title_en"
      [] k = "ai_title_zh" -> "title_zh"
      [] k = "ai_veo" -> "veo_prompt"
      [] k = "ai_kling" -> "kling_prompt"
      [] k = "ai_script_en" -> "script_en"
      [] k = "ai_script_zh" -> "script_zh"
      [] k = "ai_tags" -> "tags"
      [] k = "ai_comment" -> "comment"

Absent == [present |-> FALSE, val |-> <<>>]
Present(v) == [present |-> TRUE, val |-> v]

\* line 249
keys_to_clear_search ==
    {"ai_title_en", "ai_title_zh", "ai_script_en", "ai_script_zh", "ai_tags",
     "ai_comment", "ai_veo", "ai_kling"}

\* a bug the list of line 279 could have: one key forgotten
keys_to_clear_select_short ==
    {"ai_title_en", "ai_title_zh", "ai_script_en", "ai_script_zh", "ai_tags",
     "ai_comment", "ai_veo"}

\* line 279
keys_to_clear_select ==
    {"ai_title_en", "ai_title_zh", "ai_script_en", "ai_script_zh", "ai_tags",
     "ai_comment", "ai_veo", "ai_kling"}

\* lines 250-251, 280-281
ClearKeys(keys) == [k \in AiKeys |-> IF k \in keys THEN Absent ELSE session_state[k]]

\* dict.get(key, '')
DictGet(d, key) == IF <<key>> \in DOMAIN d THEN d[<<key>>] ELSE <<>>

\* what the last script run did: the operation, the generation requests it
\* issued (model, answer, and the index in RawTexts of the text answered), how
\* the pipeline ended, the calls to the sheet, the message shown
Ran(op, msg) ==
    [op |-> op, requests |-> <<>>, outcome |-> "-", error |-> "-",
     saves |-> 0, appends |-> 0, sink |-> "-", msg |-> msg]

ExIdle == [stage |-> "idle", prefix |-> <<>>, x |-> <<>>, suffix |-> <<>>,
           wrapped |-> JsonError, bare |-> JsonError, payload |-> <<>>]

Init ==
    /\ modelCache = [populated |-> FALSE, value |-> <<>>, raised |-> FALSE]
    /\ listCalls = 0
    /\ search_results = <<>>
    /\ selected_video = "none"
    /\ session_state = [k \in AiKeys |-> Absent]
    /\ aiSrc = "none"
    /\ rows = <<>>
    /\ inv = Ran("start", "none")
    /\ ex = ExIdle

\* lines 242-253, then the rest of the script run
Search ==
    \E results \in SearchOutcomes :
        /\ IF results # <<>>
           THEN /\ search_results' = results
                /\ selected_video' = results[1]
                /\ session_state' = ClearKeys(keys_to_clear_search)
                /\ inv' = Ran("search", "none")
           ELSE /\ UNCHANGED <<search_results, selected_video, session_state>>
                /\ inv' = Ran("search", "warning_no_video")
        /\ UNCHANGED <<aiSrc, rows, ex>>
        /\ RenderDetail

\* lines 276-282: the button of one listed video, then st.rerun()
SelectVideo ==
    /\ search_results # <<>>
    /\ \E i \in 1..Len(search_results) :
        /\ selected_video' = search_results[i]
        /\ session_state' = ClearKeys(keys_to_clear_select)
    /\ inv' = Ran("select", "none")
    /\ UNCHANGED <<search_results, aiSrc, rows, ex>>
    /\ RenderDetail

\* a script run with no button pressed
Rerun ==
    /\ inv' = Ran("rerun", "none")
    /\ UNCHANGED <<search_results, selected_video, session_state, aiSrc, rows, ex>>
    /\ RenderDetail

\* lines 338, 359-361: the update button is drawn while ai_veo is in the session
\* state, and only shows a toast.  (The widgets of lines 343-357 show the
\* session keys; what the user types into them is not modelled.)
UpdateButton ==
    /\ search_results # <<>> /\ selected_video # "none"
    /\ session_state["ai_veo"].present
    /\ inv' = Ran("update", "toast_recorded")
    /\ UNCHANGED <<search_results, selected_video, session_state, aiSrc, rows, ex>>
    /\ RenderDetail

-----------------------------------------------------------------------------
(* Generation and the Result Sink *)

\* how model.generate_content answers one request: an exception of one of
\* three kinds, or a response whose text is one of RawTexts
Replies ==
    [result : {"RateLimited", "ModelUnavailable", "Unknown"}, text : {0}]
    \cup [result : {"ok"}, text : 1..Len(RawTexts)]

ErrorDict(msg) == JsonDict([k \in {<<"error">>} |-> <<msg>>])

\* lines 192-196: one request; any exception, of the request or of the parsing,
\* becomes {"error": str(e)}
generate_creative_content(reply) ==
    IF reply.result # "ok" THEN ErrorDict(reply.result)
    ELSE IF Extracted[reply.text].kind = "error" THEN ErrorDict("JSONDecodeError")
    ELSE Extracted[reply.text]

\* why the pipeline failed, for a reply that made it fail
FailureKind(reply) ==
    IF reply.result # "ok" THEN reply.result
    ELSE IF Extracted[reply.text].kind = "error" THEN "MalformedOutput"
    ELSE "ErrorKey"

\* lines 319-329
data_to_save(selected, ai_data) ==
    [url |-> Url(selected),
     title_en |-> DictGet(ai_data, "title_en"),
     title_zh |-> DictGet(ai_data, "title_zh"),
     veo_prompt |-> DictGet(ai_data, "veo_prompt"),
     kling_prompt |-> DictGet(ai_data, "kling_prompt"),
     script_en |-> DictGet(ai_data, "script_en"),
     script_zh |-> DictGet(ai_data, "script_zh"),
     tags |-> DictGet(ai_data, "tags"),
     comment |-> DictGet(ai_data, "comment")]

\* lines 207-218; every run of the model falls in the same minute, so the
\* first column is the same text in every row
Row(data) ==
    << <<"now">>, data.url, data.title_en, data.title_zh, data.veo_prompt,
       data.kling_prompt, data.script_en, data.script_zh, data.tags, data.comment >>

\* how the sheet answers: "ok"; "no_sheet", an exception of lines 202-205
\* (credentials refused, sheet not found); "append_failed", an exception of
\* append_row itself
SinkOutcomes == {"ok", "no_sheet", "append_failed"}

\* a bug save_to_sheet could have: overwriting the last row instead of appending
save_to_sheet_overwrite(data, sink) ==
    IF sink = "ok" /\ rows # <<>>
    THEN [rows EXCEPT ![Len(rows)] = Row(data)]
    ELSE IF sink = "ok" THEN Append(rows, Row(data)) ELSE rows

\* lines 199-223: the sheet after the call
save_to_sheet(data, sink) ==
    IF sink = "ok" THEN Append(rows, Row(data)) ELSE rows

\* a bug the handler could have: line 307 missing, so that an ai_data that
\* reports an error is stored and saved like a brief
HandleAiData_no_error_check(run, reply, ai_data, sink) ==
    IF ai_data.kind = "other"
    THEN /\ inv' = [run EXCEPT !.outcome = "Crashed", !.msg = "exception"]
         /\ UNCHANGED <<session_state, aiSrc, rows>>
    ELSE /\ session_state' = [k \in AiKeys |-> Present(DictGet(ai_data.val, DataKey(k)))]
         /\ aiSrc' = selected_video
         /\ rows' = IF sink = "ok"
                    THEN Append(rows, Row(data_to_save(selected_video, ai_data.val)))
                    ELSE rows
         /\ inv' = [run EXCEPT
                      !.outcome = "Succeeded",
                      !.saves = 1,
                      !.appends = IF sink = "no_sheet" THEN 0 ELSE 1,
                      !.sink = sink,
                      !.msg = IF sink = "ok" THEN "toast_saved" ELSE "error_save"]

\* lines 307-335: what the handler does with ai_data; `sink` is how the sheet
\* answers if it is called
HandleAiData(run, reply, ai_data, sink) ==
    IF ai_data.kind = "other"
    THEN \* ai_data is no dict: line 307 or 309 raises, the run ends
         /\ inv' = [run EXCEPT !.outcome = "Crashed", !.msg = "exception"]
         /\ UNCHANGED <<session_state, aiSrc, rows>>
    ELSE IF <<"error">> \notin DOMAIN ai_data.val
    THEN \* lines 308-333
         /\ session_state' = [k \in AiKeys |-> Present(DictGet(ai_data.val, DataKey(k)))]
         /\ aiSrc' = selected_video
         /\ rows' = save_to_sheet(data_to_save(selected_video, ai_data.val), sink)
         /\ inv' = [run EXCEPT
                      !.outcome = "Succeeded",
                      !.saves = 1,
                      !.appends = IF sink = "no_sheet" THEN 0 ELSE 1,
                      !.sink = sink,
                      !.msg = IF sink = "ok" THEN "toast_saved" ELSE "error_save"]
    ELSE \* line 335
         /\ inv' = [run EXCEPT !.outcome = "Failed",
                               !.error = FailureKind(reply),
                               !.msg = "error_generate"]
         /\ UNCHANGED <<session_state, aiSrc, rows>>

\* lines 297-335, after the model list of lines 293-295
Generate ==
    /\ search_results # <<>> /\ selected_video # "none"
    /\ UNCHANGED <<search_results, selected_video, ex>>
    /\ RenderDetail
    /\ LET model_options == modelCache'.value
       IN  IF model_options = <<>>
           THEN \* st.selectbox over no options gives None: lines 298-299
                /\ inv' = [Ran("generate", "error_model") EXCEPT !.outcome = "NoModel"]
                /\ UNCHANGED <<session_state, aiSrc, rows>>
           ELSE \E m \in 1..Len(model_options), reply \in Replies :
                LET selected_model_name == model_options[m]
                    ai_data == generate_creative_content(reply)
                    run == [Ran("generate", "none") EXCEPT
                              !.requests = <<[model |-> selected_model_name,
                                              result |-> reply.result,
                                              text |-> reply.text]>>]
                    saved == ai_data.kind = "dict" /\ <<"error">> \notin DOMAIN ai_data.val
                IN  \E sink \in (IF saved THEN SinkOutcomes ELSE {"ok"}) :
                        \* a sheet that holds MaxRows rows takes no more
                        /\ (saved /\ sink = "ok") => Len(rows) < MaxRows
                        /\ HandleAiData(run, reply, ai_data, sink)

Next == Search \/ SelectVideo \/ Rerun \/ UpdateButton \/ Generate

Spec == Init /\ [][Next]_vars

-----------------------------------------------------------------------------
(* Extraction on its own: clean_json_string and json.loads applied to an   *)
(* object text, bare and wrapped in a prefix and a suffix without braces   *)

PrefixAlphabet == {BT, "json", "\n"}
SuffixAlphabet == {BT, "x"}

Prefixes == UNION {[1..n -> PrefixAlphabet] : n \in 0..MaxPrefixLen}
Suffixes == UNION {[1..n -> SuffixAlphabet] : n \in 0..MaxSuffixLen}

ObjectTexts ==
    { <<"{", "}">>,
      Obj(<<Pair("k", <<"a", "}">>)>>),
      Fence \o <<"json", "\n">> \o Obj(<<Pair("k", <<"v">>)>>) \o <<"\n">> \o Fence,
      Obj(<<Pair("k", Fence \o <<"json", BT>>)>>),
      <<BT, " ">> \o Obj(<<Pair("k", <<"v">>), Pair("c", <<"{">>)>>) \o <<" ", BT, BT>>,
      <<"{">> \o Str(<<"k">>) \o <<":", "}">> }

ExtractInit ==
    /\ modelCache = [populated |-> FALSE, value |-> <<>>, raised |-> FALSE]
    /\ listCalls = 0
    /\ search_results = <<>>
    /\ selected_video = "none"
    /\ session_state = [k \in AiKeys |-> Absent]
    /\ aiSrc = "none"
    /\ rows = <<>>
    /\ inv = Ran("start", "none")
    /\ \E p \in Prefixes, s \in Suffixes, x \in ObjectTexts :
         ex = [ExIdle EXCEPT !.stage = "ready", !.prefix = p, !.x = x, !.suffix = s]

\* the object text alone
ExtractBare ==
    /\ ex.stage = "ready"
    /\ ex' = [ex EXCEPT !.stage = "bare", !.bare = json_loads(clean_json_string(ex.x))]
    /\ UNCHANGED <<modelCache, listCalls, search_results, selected_video,
                   session_state, aiSrc, rows, inv>>

\* the object text between the prefix and the suffix
ExtractWrapped ==
    /\ ex.stage = "bare"
    /\ LET text == ex.prefix \o ex.x \o ex.suffix
       IN  ex' = [ex EXCEPT !.stage = "done",
                            !.payload = clean_json_string(text),
                            !.wrapped = json_loads(clean_json_string(text))]
    /\ UNCHANGED <<modelCache, listCalls, search_results, selected_video,
                   session_state, aiSrc, rows, inv>>

ExtractNext == ExtractBare \/ ExtractWrapped

ExtractSpec == ExtractInit /\ [][ExtractNext]_vars

-----------------------------------------------------------------------------
(* Properties *)

Generated == inv.op = "generate" /\ inv.requests # <<>>
candidates == modelCache.value
RequestsTo(m) == {i \in 1..Len(inv.requests) : inv.requests[i].model = m}
Rejected(m) == {i \in RequestsTo(m) : inv.requests[i].result # "ok"}

\* C1 (fallback ordering): a generate run over three candidates that starts at
\* the first, A, and finds it ModelUnavailable asks A once, then asks the
\* second, B; if B answers, no third request is made and the run does not end
\* Failed; the trail of rejected attempts holds one entry for A.
C1_FallbackOrdering ==
    (/\ Generated
     /\ Len(candidates) = 3
     /\ inv.requests[1].model = candidates[1]
     /\ inv.requests[1].result = "ModelUnavailable")
    => /\ Cardinality(RequestsTo(candidates[1])) = 1
       /\ Cardinality(Rejected(candidates[1])) = 1
       /\ Len(inv.requests) >= 2
       /\ inv.requests[2].model = candidates[2]
       /\ RequestsTo(candidates[3]) = {}
       /\ inv.requests[2].result = "ok" =>
            (Len(inv.requests) = 2 /\ inv.error # "ModelUnavailable")

\* C2 (backoff bound): a generate run in which a model answered RateLimited to
\* every request made to it made exactly 3 requests to that model, and then
\* went on to the next candidate, or, the model being the last candidate,
\* ended Failed with AllModelsExhausted.
C2_BackoffBound ==
    Generated =>
        \A c \in 1..Len(candidates) :
            LET to == RequestsTo(candidates[c])
            IN  (to # {} /\ \A i \in to : inv.requests[i].result = "RateLimited")
                => /\ Cardinality(to) = 3
                   /\ c < Len(candidates) => RequestsTo(candidates[c + 1]) # {}
                   /\ c = Len(candidates) =>
                        (inv.outcome = "Failed" /\ inv.error = "AllModelsExhausted")

\* hashtags compare without regard to case
Lower(w) ==
    CASE w \in {"#AI", "#Ai", "#ai"} -> "#ai"
      [] w \in {"#VEO", "#Veo", "#veo"} -> "#veo"
      [] w \in {"#KLING", "#Kling", "#kling"} -> "#kling"
      [] OTHER -> w
MarkerTag == "#ai"
DenyList == {"#veo", "#kling"}
TagsOk(tags) ==
    /\ \E i \in 1..Len(tags) : Lower(tags[i]) = MarkerTag
    /\ \A i \in 1..Len(tags) : Lower(tags[i]) \notin DenyList

\* C3 (tag invariant): the tags kept in the session state, and the tags column
\* of every row of the sheet, hold the marker tag #AI and no denylisted vendor
\* tag in any letter-casing.
C3_TagInvariant ==
    /\ session_state["ai_tags"].present => TagsOk(session_state["ai_tags"].val)
    /\ \A r \in 1..Len(rows) : TagsOk(rows[r][9])

\* the text with its fence markers removed
FenceStripped(text) == str_remove(str_remove(text, FenceJson), Fence)
\* p is the part of t from its first opening brace to its last closing brace
IsBracePayload(p, t) ==
    \E i, j \in 1..Len(t) :
        /\ t[i] = "{" /\ \A k \in 1..(i - 1) : t[k] # "{"
        /\ t[j] = "}" /\ \A k \in (j + 1)..Len(t) : t[k] # "}"
        /\ p = SubSeq(t, i, j)

\* C4 (extraction robustness): for an object text X, a prefix and a suffix
\* without braces, extracting from prefix + X + suffix gives what extracting
\* from X gives, and the payload parsed is the fence-stripped text from its
\* first '{' to its last '}'.
C4_ExtractionRobust ==
    ex.stage = "done" =>
        /\ ex.wrapped = ex.bare
        /\ IsBracePayload(ex.payload, FenceStripped(ex.prefix \o ex.x \o ex.suffix))

\* a fenced, prose-free wrapping of an object that parses
C4_Witness ==
    /\ ex.stage = "done"
    /\ ex.prefix = FenceJson /\ ex.suffix = Fence
    /\ ex.wrapped.kind = "dict" /\ <<"k">> \in DOMAIN ex.wrapped.val
    /\ ex.wrapped.val[<<"k">>] = <<"a", "}">>

RequiredKeys == { <<"title_en">>, <<"title_zh">>, <<"veo_prompt">>, <<"kling_prompt">>,
                  <<"script_en">>, <<"script_zh">> }

\* C5 (malformed rejection): when the response parses to an object that lacks a
\* required key the run ends Failed with MalformedOutput and stores and saves
\* nothing; when only optional keys are missing it succeeds and those keys are
\* the empty string.
C5_MalformedRejection ==
    (/\ Generated
     /\ inv.requests[1].result = "ok"
     /\ Extracted[inv.requests[1].text].kind = "dict"
     /\ <<"error">> \notin DOMAIN Extracted[inv.requests[1].text].val)
    => LET d == Extracted[inv.requests[1].text].val
       IN  IF RequiredKeys \subseteq DOMAIN d
           THEN /\ inv.outcome = "Succeeded"
                /\ \A k \in AiKeys : <<DataKey(k)>> \notin DOMAIN d =>
                       session_state[k] = Present(<<>>)
           ELSE /\ inv.outcome = "Failed" /\ inv.error = "MalformedOutput"
                /\ inv.saves = 0 /\ inv.appends = 0

\* C6 as claimed: every generation that succeeds calls append_row exactly once.
C6_OneAppendPerSuccess ==
    (inv.op = "generate" /\ inv.outcome = "Succeeded") => inv.appends = 1

\* the row of the brief now in the session state, for the selected video
SessionRow ==
    << <<"now">>, Url(selected_video),
       session_state["ai_title_en"].val, session_state["ai_title_zh"].val,
       session_state["ai_veo"].val, session_state["ai_kling"].val,
       session_state["ai_script_en"].val, session_state["ai_script_zh"].val,
       session_state["ai_tags"].val, session_state["ai_comment"].val >>

\* C6 (append-only persistence), amended: a generation that succeeds calls
\* save_to_sheet once, which calls append_row at most once, and exactly once
\* when the sheet could be opened; when the sheet accepts the row, the sheet is
\* the old sheet with the row of this brief added at the end, whether or not
\* the same row is there already, and otherwise the sheet is unchanged; a run
\* that is no successful generation calls neither and leaves the sheet as it is.
C6_AppendOnly ==
    [][ IF inv'.op = "generate" /\ inv'.outcome = "Succeeded"
        THEN /\ inv'.saves = 1 /\ inv'.appends <= 1
             /\ inv'.sink # "no_sheet" => inv'.appends = 1
             /\ inv'.sink = "ok" => rows' = Append(rows, SessionRow')
             /\ inv'.sink # "ok" => rows' = rows
        ELSE inv'.saves = 0 /\ inv'.appends = 0 /\ rows' = rows ]_vars

\* the same brief for the same video saved twice
C6_Witness ==
    /\ Len(rows) = 2 /\ rows[1] = rows[2]
    /\ inv.op = "generate" /\ inv.outcome = "Succeeded" /\ inv.sink = "ok"

\* what get_valid_models returns for the listings that end normally
SuccessfulResults == {sorted_reverse(valid_models(listing)) : listing \in Listings}

\* C7 (capability discovery failure): when listing the models raised, what
\* get_valid_models returns is a value that no successful listing returns (a
\* listing without usable models among them), and no generation request is
\* issued.
C7_DiscoveryHardStop ==
    (modelCache.populated /\ modelCache.raised)
    => /\ modelCache.value \notin SuccessfulResults
       /\ inv.op = "generate" => inv.requests = <<>>

Fatal(request) ==
    \/ request.result = "Unknown"
    \/ request.result = "ok" /\ Extracted[request.text].kind = "error"

\* C8 (no retry on fatal errors): a generate run whose request failed with an
\* Unknown error, or whose response text could not be parsed, made that one
\* request only, ended Failed, showed the error, wrote nothing to the session
\* state and called neither save_to_sheet nor append_row.
C8_NoRetryOnFatal ==
    [][ (inv'.op = "generate" /\ inv'.requests # <<>> /\ Fatal(inv'.requests[1]))
        => /\ Len(inv'.requests) = 1
           /\ inv'.outcome = "Failed"
           /\ inv'.error = (IF inv'.requests[1].result = "Unknown"
                            THEN "Unknown" ELSE "MalformedOutput")
           /\ inv'.msg = "error_generate"
           /\ session_state' = session_state /\ aiSrc' = aiSrc
           /\ rows' = rows /\ inv'.saves = 0 /\ inv'.appends = 0 ]_vars

\* a response that could not be parsed, met while an earlier brief is held
C8_Witness ==
    /\ Generated /\ Fatal(inv.requests[1]) /\ inv.requests[1].result = "ok"
    /\ inv.outcome = "Failed"
    /\ session_state["ai_tags"].present /\ rows # <<>>

\* C9 (single-flight cache): genai.list_models is called at most once, and the
\* cached list, once there, is never changed.
C9_SingleFlight ==
    [][ /\ listCalls' <= 1
        /\ modelCache.populated => (modelCache' = modelCache /\ listCalls' = listCalls)
      ]_vars

\* a generation request issued from the cached list of a single listing
C9_Witness ==
    /\ Generated /\ modelCache.populated /\ listCalls = 1
    /\ Len(modelCache.value) = 3

AllAbsent(ss) == \A k \in AiKeys : ~ ss[k].present

\* C10 (no stale brief): the generated fields held in the session state were
\* generated for the selected video; a run that changes the selection, and
\* every search with results and every choice of a video, leaves none of the
\* eight fields; a generation that fails and a search without results leave the
\* selection and the fields as they were.
C10_NoStaleBrief ==
    [][ /\ (\E k \in AiKeys : session_state'[k].present) => aiSrc' = selected_video'
        /\ selected_video' # selected_video => AllAbsent(session_state')
        /\ (inv'.op = "select" \/ (inv'.op = "search" /\ inv'.msg = "none"))
             => AllAbsent(session_state')
        /\ (\/ inv'.op = "generate" /\ inv'.outcome # "Succeeded"
            \/ inv'.op = "search" /\ inv'.msg = "warning_no_video")
             => (selected_video' = selected_video /\ session_state' = session_state)
      ]_vars

\* another video chosen after a brief was generated: the fields are gone
C10_Witness ==
    /\ inv.op = "select"
    /\ aiSrc # "none" /\ aiSrc # selected_video
    /\ AllAbsent(session_state)

====
